---- MODULE Spec2Model ----
(***************************************************************************)
(* A model of examples/mnist/mnist_spark.ipynb: the argument parser of the *)
(* notebook, its ingestion of the image and label files into a zipped RDD, *)
(* and the two runs (training, then inference) of its code cells against a *)
(* TensorFlowOnSpark cluster.                                              *)
(***************************************************************************)
EXTENDS Integers, Sequences, FiniteSets, Bags, TLC

VARIABLES
  ptokens,      \* ParseSpec: the token list handed to parser.parse_args
  presult,      \* ParseSpec: <<>> before the call, then <<outcome>>
  imagesSrc,    \* IngestSpec: the part files under args.images
  labelsSrc,    \* IngestSpec: the part files under args.labels
  ipc,          \* IngestSpec: position in the ingestion statements
  dataRDD,      \* IngestSpec: outcome of images.zip(labels), once evaluated
  pc,           \* the code cell the notebook executes next
  waiting,      \* TRUE while the cell at pc is inside a blocking call
  args,         \* the notebook's global args: <<>> or <<namespace>>
  fs,           \* the filesystem: the set of paths that exist
  num_executors,\* sc.defaultParallelism (cell 8)
  cluster,      \* the notebook's global cluster: a handle id, 0 before the first
  handles,      \* handle id -> the cluster TFCluster.run returned for it
  live,         \* handles returned by TFCluster.run and not yet shut down
  queue,        \* records submitted to a cluster and not yet consumed
  predictions,  \* the lines the workers have returned for the inference RDD
  saved,        \* the lines saveAsTextFile wrote under args.output
  trace,        \* history: the steps executed so far, in order
  feedLog,      \* history: each feed call with the liveness of its handle
  cleared       \* history: the paths the rm steps removed

pvars == <<ptokens, presult>>
ivars == <<imagesSrc, labelsSrc, ipc, dataRDD>>
wvars == <<pc, waiting, args, fs, num_executors, cluster, handles, live, queue,
           predictions, saved, trace, feedLog, cleared>>
vars == <<pvars, ivars, wvars>>

-----------------------------------------------------------------------------
(* Python values.  A value carries its type, so that "the integer 3" and   *)
(* "the string '3'" are different values.                                  *)

PyInt(n) == [ty |-> "int", n |-> n, s |-> ""]
PyFloat(tenths) == [ty |-> "float", n |-> tenths, s |-> ""]
PyStr(s) == [ty |-> "str", n |-> 0, s |-> s]
PyBool(b) == [ty |-> "bool", n |-> IF b THEN 1 ELSE 0, s |-> ""]
PyNone == [ty |-> "NoneType", n |-> 0, s |-> ""]

(* int(x) of a string: the strings of this table convert, every other      *)
(* string raises ValueError.                                               *)
IntLiterals ==
  [s \in {"0", "1", "2", "3", "4", "5", "6", "7", "8", "9", "600"} |->
     CASE s = "0" -> 0 [] s = "1" -> 1 [] s = "2" -> 2 [] s = "3" -> 3
       [] s = "4" -> 4 [] s = "5" -> 5 [] s = "6" -> 6 [] s = "7" -> 7
       [] s = "8" -> 8 [] s = "9" -> 9 [] s = "600" -> 600]

IntOf(s) == IF s \in DOMAIN IntLiterals THEN <<PyInt(IntLiterals[s])>> ELSE <<>>

(* float(x) of a string, in tenths: every int literal converts, and so do  *)
(* the decimal literals of this table.                                     *)
FloatLiterals ==
  [s \in {"0.0", "0.5", "1.0", "2.5"} |->
     CASE s = "0.0" -> 0 [] s = "0.5" -> 5 [] s = "1.0" -> 10 [] s = "2.5" -> 25]

FloatOf(s) ==
  IF s \in DOMAIN FloatLiterals THEN <<PyFloat(FloatLiterals[s])>>
  ELSE IF s \in DOMAIN IntLiterals THEN <<PyFloat(10 * IntLiterals[s])>>
  ELSE <<>>

-----------------------------------------------------------------------------
(* The argument parser (cell 7).                                           *)

Arg(dest, type, action, choices, default) ==
  [dest |-> dest, flag |-> "--" \o dest, type |-> type, action |-> action,
   choices |-> choices, default |-> default]

parser ==
  { Arg("batch_size", "int", "store", {}, PyInt(100)),
    Arg("epochs", "int", "store", {}, PyInt(1)),
    Arg("format", "str", "store", {"csv", "pickle", "tfr"}, PyStr("csv")),
    Arg("images", "str", "store", {}, PyNone),
    Arg("labels", "str", "store", {}, PyNone),
    Arg("mode", "str", "store", {}, PyStr("train")),
    Arg("model", "str", "store", {}, PyStr("mnist_model")),
    Arg("output", "str", "store", {}, PyStr("predictions")),
    Arg("readers", "int", "store", {}, PyInt(1)),
    Arg("rdma", "str", "store", {}, PyBool(FALSE)),   \* no type=: the string
    Arg("steps", "int", "store", {}, PyInt(1000)),
    Arg("tensorboard", "bool", "store_true", {}, PyBool(FALSE)) }

Dests == { a.dest : a \in parser }

(* The namespace argparse starts from: every dest at its default.          *)
Defaults == [d \in Dests |-> (CHOOSE a \in parser : a.dest = d).default]

(* Tokens that start with "-" and are not negative numbers: argparse reads  *)
(* them as option strings.  "--ep" and "--mod" are abbreviations, "--bogus" *)
(* is no prefix of any flag.                                               *)
Abbreviations ==
  [t \in {"--ep", "--mod", "--bogus"} |->
     CASE t = "--ep" -> {"--epochs"}
       [] t = "--mod" -> {"--mode", "--model"}
       [] t = "--bogus" -> {}]

IsOptionString(tok) ==
  tok \in { a.flag : a \in parser } \cup DOMAIN Abbreviations

(* _parse_optional: an exact match wins, else every flag the token is a     *)
(* prefix of.                                                               *)
Matches(tok) ==
  IF tok \in { a.flag : a \in parser } THEN { a \in parser : a.flag = tok }
  ELSE { a \in parser : a.flag \in Abbreviations[tok] }

(* _get_value and _check_value: the type function applied to the string,   *)
(* then the choices; <<>> when either rejects the string.                   *)
GetValue(a, str) ==
  LET v == IF a.type = "int" THEN IntOf(str) ELSE <<PyStr(str)>>
  IN IF v = <<>> THEN <<>>
     ELSE IF a.choices # {} /\ str \notin a.choices THEN <<>>
     ELSE v

ParseError == [status |-> "error", exit |-> 2, ns |-> <<>>]

RECURSIVE ParseLoop(_, _, _)
ParseLoop(tokens, i, ns) ==
  IF i > Len(tokens) THEN [status |-> "ok", exit |-> 0, ns |-> <<ns>>]
  ELSE IF ~IsOptionString(tokens[i]) THEN ParseError
  ELSE IF Cardinality(Matches(tokens[i])) # 1 THEN ParseError
  ELSE LET a == CHOOSE x \in Matches(tokens[i]) : TRUE IN
    IF a.action = "store_true"
      THEN ParseLoop(tokens, i + 1, [ns EXCEPT ![a.dest] = PyBool(TRUE)])
    ELSE IF i + 1 > Len(tokens) \/ IsOptionString(tokens[i + 1]) THEN ParseError
    ELSE LET v == GetValue(a, tokens[i + 1]) IN
      IF v = <<>> THEN ParseError
      ELSE ParseLoop(tokens, i + 2, [ns EXCEPT ![a.dest] = v[1]])

(* parser.parse_args(tokens): a namespace, or SystemExit(2).               *)
ParseArgs(tokens) == ParseLoop(tokens, 1, Defaults)

-----------------------------------------------------------------------------
(* parse_args as a function of its token list.                             *)

MaxTokens == 3

Tokens ==
  { a.flag : a \in parser } \cup DOMAIN Abbreviations
    \cup {"3", "abc", "tfr", "inference", "False"}

TokenLists == UNION { [1..n -> Tokens] : n \in 0..MaxTokens }

WIdle ==
  /\ pc = "idle" /\ waiting = FALSE /\ args = <<>> /\ fs = {}
  /\ num_executors = 1 /\ cluster = 0 /\ handles = <<>> /\ live = {}
  /\ queue = {} /\ predictions = EmptyBag /\ saved = EmptyBag /\ trace = <<>>
  /\ feedLog = {} /\ cleared = {}

IIdle ==
  /\ imagesSrc = <<>> /\ labelsSrc = <<>> /\ ipc = "idle" /\ dataRDD = <<>>

PIdle == ptokens = <<>> /\ presult = <<>>

ParseInit == ptokens \in TokenLists /\ presult = <<>> /\ IIdle /\ WIdle

CallParseArgs ==
  /\ presult = <<>>
  /\ presult' = <<ParseArgs(ptokens)>>
  /\ UNCHANGED <<ptokens, ivars, wvars>>

ParseNext == CallParseArgs

ParseSpec == ParseInit /\ [][ParseNext]_vars

-----------------------------------------------------------------------------
(* Ingestion (cells 15 and 24): sc.textFile(path).map(parse) for the images *)
(* and the labels, then images.zip(labels).  A source is the sequence of    *)
(* partitions sc.textFile makes of the files under a path; a partition is a *)
(* sequence of lines; a line is the sequence of its comma-separated fields, *)
(* i.e. what ln.split(',') returns.                                        *)

(* [int(x) for x in ln.split(',')]: <<>> when int raises ValueError.       *)
ParseImageLine(ln) ==
  IF \E k \in 1..Len(ln) : IntOf(ln[k]) = <<>> THEN <<>>
  ELSE <<[k \in 1..Len(ln) |-> IntOf(ln[k])[1]]>>

(* [float(x) for x in ln.split(',')]: <<>> when float raises ValueError.   *)
ParseLabelLine(ln) ==
  IF \E k \in 1..Len(ln) : FloatOf(ln[k]) = <<>> THEN <<>>
  ELSE <<[k \in 1..Len(ln) |-> FloatOf(ln[k])[1]]>>

(* RDD.zip as called: pyspark raises ValueError at the call when the two   *)
(* RDDs differ in their number of partitions; the pairing itself is lazy.  *)
ZipCall(images, labels) ==
  IF Len(images) # Len(labels) THEN "ValueError" ELSE "ok"

ZipPartitionReversed(iPart, lPart) ==
  IF \/ \E k \in 1..Len(iPart) : ParseImageLine(iPart[k]) = <<>>
     \/ \E k \in 1..Len(lPart) : ParseLabelLine(lPart[k]) = <<>>
     \/ Len(iPart) # Len(lPart)
  THEN <<>>
  ELSE <<[k \in 1..Len(iPart) |->
            [image |-> ParseImageLine(iPart[k])[1],
             label |-> ParseLabelLine(lPart[Len(lPart) + 1 - k])[1]]]>>

Shorter(a, b) == IF Len(a) <= Len(b) THEN Len(a) ELSE Len(b)

ZipPartitionTruncating(iPart, lPart) ==
  IF \/ \E k \in 1..Len(iPart) : ParseImageLine(iPart[k]) = <<>>
     \/ \E k \in 1..Len(lPart) : ParseLabelLine(lPart[k]) = <<>>
  THEN <<>>
  ELSE <<[k \in 1..Shorter(iPart, lPart) |->
            [image |-> ParseImageLine(iPart[k])[1],
             label |-> ParseLabelLine(lPart[k])[1]]]>>

(* One partition of the zipped RDD, computed by a task: the lines of both  *)
(* sides are parsed by the map lambdas and paired by position; the task     *)
(* fails when a lambda raises or when the two sides differ in their number *)
(* of elements.                                                            *)
ZipPartition(iPart, lPart) ==
  IF \/ \E k \in 1..Len(iPart) : ParseImageLine(iPart[k]) = <<>>
     \/ \E k \in 1..Len(lPart) : ParseLabelLine(lPart[k]) = <<>>
     \/ Len(iPart) # Len(lPart)
  THEN <<>>
  ELSE <<[k \in 1..Len(iPart) |->
            [image |-> ParseImageLine(iPart[k])[1],
             label |-> ParseLabelLine(lPart[k])[1]]]>>

RECURSIVE Flatten(_)
Flatten(parts) ==
  IF parts = <<>> THEN <<>> ELSE Head(parts) \o Flatten(Tail(parts))

(* The zipped RDD evaluated by a Spark job over all its partitions.        *)
Evaluate(images, labels) ==
  LET zipped == [p \in 1..Len(images) |-> ZipPartition(images[p], labels[p])]
  IN IF \E p \in 1..Len(images) : zipped[p] = <<>>
     THEN [status |-> "error", parts |-> <<>>]
     ELSE [status |-> "ok", parts |-> [p \in 1..Len(images) |-> zipped[p][1]]]

(* The inputs: part files of up to MaxLines lines in up to MaxParts        *)
(* partitions.  The line at position k of the images is "k,0", of the      *)
(* labels "0.5,k"; at most one line of a source is malformed.              *)
MaxParts == 2
MaxLines == 2

Digit == [k \in 1..9 |-> CHOOSE s \in DOMAIN IntLiterals : IntLiterals[s] = k]

ImageLine(k, bad) == IF k = bad THEN <<"0.5">> ELSE <<Digit[k], "0">>
LabelLine(k, bad) == IF k = bad THEN <<"">> ELSE <<"0.5", Digit[k]>>

RECURSIVE Sum(_)
Sum(sizes) == IF sizes = <<>> THEN 0 ELSE Head(sizes) + Sum(Tail(sizes))

Layouts(maxParts, maxLines) ==
  UNION { [1..n -> 0..maxLines] : n \in 0..maxParts }

ImageSource(sizes, bad) ==
  [p \in 1..Len(sizes) |->
     [k \in 1..sizes[p] |-> ImageLine(Sum(SubSeq(sizes, 1, p - 1)) + k, bad)]]

LabelSource(sizes, bad) ==
  [p \in 1..Len(sizes) |->
     [k \in 1..sizes[p] |-> LabelLine(Sum(SubSeq(sizes, 1, p - 1)) + k, bad)]]

ImageSources(maxParts, maxLines) ==
  { ImageSource(sz, b) : sz \in Layouts(maxParts, maxLines), b \in 0..(maxParts * maxLines) }

LabelSources(maxParts, maxLines) ==
  { LabelSource(sz, b) : sz \in Layouts(maxParts, maxLines), b \in 0..(maxParts * maxLines) }

IngestInit ==
  /\ imagesSrc \in ImageSources(MaxParts, MaxLines)
  /\ labelsSrc \in LabelSources(MaxParts, MaxLines)
  /\ ipc = "textFile"
  /\ dataRDD = <<>>
  /\ PIdle /\ WIdle

(* images = sc.textFile(..).map(..); labels = sc.textFile(..).map(..):     *)
(* both lazy, nothing is read yet.                                         *)
TextFileMap ==
  /\ ipc = "textFile"
  /\ ipc' = "zip"
  /\ UNCHANGED <<imagesSrc, labelsSrc, dataRDD, pvars, wvars>>

(* dataRDD = images.zip(labels)                                            *)
ZipRDDs ==
  /\ ipc = "zip"
  /\ IF ZipCall(imagesSrc, labelsSrc) = "ok"
       THEN ipc' = "feed" /\ dataRDD' = dataRDD
       ELSE ipc' = "raised" /\ dataRDD' = <<[status |-> "error", parts |-> <<>>]>>
  /\ UNCHANGED <<imagesSrc, labelsSrc, pvars, wvars>>

(* the feed call evaluates dataRDD                                         *)
EvaluateRDD ==
  /\ ipc = "feed"
  /\ dataRDD' = <<Evaluate(imagesSrc, labelsSrc)>>
  /\ ipc' = IF Evaluate(imagesSrc, labelsSrc).status = "ok" THEN "fed" ELSE "raised"
  /\ UNCHANGED <<imagesSrc, labelsSrc, pvars, wvars>>

IngestNext == TextFileMap \/ ZipRDDs \/ EvaluateRDD

IngestSpec == IngestInit /\ [][IngestNext]_vars

-----------------------------------------------------------------------------
(* The filesystem: paths are sequences of names.                           *)

PathOf ==
  [s \in {"csv/train/images", "csv/train/labels", "csv/test/images",
          "csv/test/labels", "mnist_model", "predictions"} |->
     CASE s = "csv/train/images" -> <<"csv", "train", "images">>
       [] s = "csv/train/labels" -> <<"csv", "train", "labels">>
       [] s = "csv/test/images" -> <<"csv", "test", "images">>
       [] s = "csv/test/labels" -> <<"csv", "test", "labels">>
       [] s = "mnist_model" -> <<"mnist_model">>
       [] s = "predictions" -> <<"predictions">>]

IsPrefix(p, q) == Len(p) <= Len(q) /\ SubSeq(q, 1, Len(p)) = p

RmOnlyTarget(files, target) == files \ {target}

(* rm -rf target: the target and everything below it is gone; a missing    *)
(* target is no error.                                                     *)
RmRf(files, target) == { q \in files : ~IsPrefix(target, q) }

(* ls -l path exits non-zero on a missing path, and check_output raises.   *)
LsFails(files, path) == path \notin files

PathUniverse ==
  { PathOf[s] : s \in DOMAIN PathOf }
    \cup { <<"csv">>, <<"csv", "train">>, <<"csv", "test">> }
    \cup { <<"mnist_model", "checkpoint">>, <<"predictions", "part-00000">>,
           <<"mnist_model.bak">> }

ParentClosed(files) ==
  \A q \in files : \A k \in 1..(Len(q) - 1) : SubSeq(q, 1, k) \in files

-----------------------------------------------------------------------------
(* The cluster behind TFCluster.run, cluster.train, cluster.inference and  *)
(* cluster.shutdown.                                                       *)

(* TFCluster.run(sc, map_fun, args, num_executors, 1, tb, InputMode.SPARK) *)
NewCluster(c, ns, n) ==
  [cell |-> c, args |-> ns, workers |-> n, fed |-> FALSE,
   submitted |-> 0, consumed |-> 0]

(* The records a feed call submits: every record of every partition, once  *)
(* per epoch.                                                              *)
ItemsOf(h, kind, records, epochs) ==
  { [h |-> h, kind |-> kind, epoch |-> e, pos |-> k, rec |-> records[k]] :
      e \in 1..epochs, k \in 1..Len(records) }

(* The line an inference worker returns for one record.                    *)
Prediction(item) == [pos |-> item.pos, label |-> item.rec.label]

CollectTwice(res, item) ==
  res (+) SetToBag({Prediction(item)}) (+) SetToBag({Prediction(item)})

(* The predictions of an inference job are collected as a bag of lines:    *)
(* one more line for the record consumed.                                  *)
Collect(res, item) == res (+) SetToBag({Prediction(item)})

Pending(h, q) == { item \in q : item.h = h }

ShutdownReturnsAtOnce(h, q) == TRUE

(* cluster.shutdown() returns only when no submitted record is left.       *)
ShutdownMayReturn(h, q) == Pending(h, q) = {}

(* What the workers of a cluster leave on the filesystem.                  *)
Artifacts(hd) ==
  IF hd.args.mode = PyStr("train") /\ hd.args.model.s \in DOMAIN PathOf
    THEN { PathOf[hd.args.model.s], Append(PathOf[hd.args.model.s], "checkpoint") }
    ELSE {}

-----------------------------------------------------------------------------
(* The notebook: its code cells in order, cells 10..17 the training run,   *)
(* cells 19..26 the inference run.                                         *)

MaxExecutors == 2

(* The part files the two runs read: up to MaxRunParts partitions of up to *)
(* MaxRunLines lines.                                                      *)
MaxRunParts == 1
MaxRunLines == 2

CellOrderShutdownBeforeFeed ==
  <<"c10", "c11", "c12", "c13", "c14", "c16", "c15", "c17",
    "c19", "c20", "c21", "c22", "c23", "c24", "c25", "c26">>

CellOrderRunBeforeRm ==
  <<"c10", "c11", "c12", "c14", "c13", "c15", "c16", "c17",
    "c19", "c20", "c21", "c22", "c23", "c24", "c25", "c26">>

CellOrder ==
  <<"c10", "c11", "c12", "c13", "c14", "c15", "c16", "c17",
    "c19", "c20", "c21", "c22", "c23", "c24", "c25", "c26">>

NextCell(c) ==
  LET i == CHOOSE k \in 1..Len(CellOrder) : CellOrder[k] = c
  IN IF i = Len(CellOrder) THEN "done" ELSE CellOrder[i + 1]

RunOf(c) ==
  IF c \in {"c10", "c11", "c12", "c13", "c14", "c15", "c16", "c17"}
    THEN "train" ELSE "inference"

Step(c, kind) == [run |-> RunOf(c), step |-> kind]

TrainTokens ==
  <<"--mode", "train", "--steps", "600", "--epochs", "1",
    "--images", "csv/train/images", "--labels", "csv/train/labels">>

InferenceTokens ==
  <<"--mode", "inference",
    "--images", "csv/test/images", "--labels", "csv/test/labels">>

RunImageSources ==
  { ImageSource(sz, b) : sz \in Layouts(MaxRunParts, MaxRunLines), b \in 0..1 }

RunLabelSources ==
  { LabelSource(sz, b) : sz \in Layouts(MaxRunParts, MaxRunLines), b \in 0..1 }

Init ==
  /\ pc = CellOrder[1]
  /\ waiting = FALSE
  /\ args = <<>>
  /\ fs \in { files \in SUBSET PathUniverse : ParentClosed(files) }
  /\ num_executors \in 1..MaxExecutors
  /\ cluster = 0
  /\ handles = <<>>
  /\ live = {}
  /\ queue = {}
  /\ predictions = EmptyBag
  /\ saved = EmptyBag
  /\ trace = <<>>
  /\ feedLog = {}
  /\ cleared = {}
  /\ PIdle /\ IIdle

(* print(subprocess.check_output(["ls", "-l", path]))                      *)
Ls(c, path) ==
  /\ pc = c /\ ~waiting
  /\ trace' = Append(trace, Step(c, "ls"))
  /\ pc' = IF LsFails(fs, PathOf[path]) THEN "failed" ELSE NextCell(c)
  /\ UNCHANGED <<waiting, args, fs, num_executors, cluster, handles, live, queue,
                 predictions, saved, feedLog, cleared, pvars, ivars>>

(* print(subprocess.check_output(["ls", "-l", args.<dest>]))               *)
LsArg(c, dest) ==
  /\ pc = c /\ ~waiting
  /\ trace' = Append(trace, Step(c, "ls"))
  /\ pc' = IF args = <<>> THEN "failed"
           ELSE IF LsFails(fs, PathOf[args[1][dest].s]) THEN "failed"
           ELSE NextCell(c)
  /\ UNCHANGED <<waiting, args, fs, num_executors, cluster, handles, live, queue,
                 predictions, saved, feedLog, cleared, pvars, ivars>>

(* args = parser.parse_args([...])                                         *)
Parse(c, tokens) ==
  /\ pc = c /\ ~waiting
  /\ trace' = Append(trace, Step(c, "parse_args"))
  /\ IF ParseArgs(tokens).status = "ok"
       THEN args' = ParseArgs(tokens).ns /\ pc' = NextCell(c)
       ELSE args' = args /\ pc' = "failed"
  /\ UNCHANGED <<waiting, fs, num_executors, cluster, handles, live, queue,
                 predictions, saved, feedLog, cleared, pvars, ivars>>

(* subprocess.call(["rm", "-rf", args.<dest>]): call returns the exit code  *)
(* and raises nothing.                                                     *)
Rm(c, dest) ==
  /\ pc = c /\ ~waiting
  /\ trace' = Append(trace, Step(c, "rm"))
  /\ IF args = <<>>
       THEN pc' = "failed" /\ fs' = fs /\ cleared' = cleared
       ELSE /\ fs' = RmRf(fs, PathOf[args[1][dest].s])
            /\ cleared' = cleared \cup (fs \ fs')
            /\ pc' = NextCell(c)
  /\ UNCHANGED <<waiting, args, num_executors, cluster, handles, live, queue,
                 predictions, saved, feedLog, pvars, ivars>>

(* cluster = TFCluster.run(...): a live handle, or an error when the       *)
(* workers cannot be allocated.                                            *)
Run(c) ==
  /\ pc = c /\ ~waiting
  /\ trace' = Append(trace, Step(c, "run"))
  /\ \E allocated \in BOOLEAN :
       IF allocated /\ args # <<>>
         THEN /\ handles' = Append(handles, NewCluster(c, args[1], num_executors))
              /\ cluster' = Len(handles) + 1
              /\ live' = live \cup {Len(handles) + 1}
              /\ pc' = NextCell(c)
         ELSE /\ pc' = "failed"
              /\ UNCHANGED <<handles, cluster, live>>
  /\ UNCHANGED <<waiting, args, fs, num_executors, queue, predictions, saved,
                 feedLog, cleared, pvars, ivars>>

(* The partitions of a failed job whose tasks did run, when the job fails: *)
(* only a partition whose task succeeds can have fed its records.          *)
GoodPartitions(imgs, lbls) ==
  { p \in 1..Len(imgs) : ZipPartition(imgs[p], lbls[p]) # <<>> }

GoodParts(imgs, lbls, ran) ==
  Flatten([p \in 1..Len(imgs) |->
             IF p \in ran THEN ZipPartition(imgs[p], lbls[p])[1] ELSE <<>>])

(* The feed call of cells 15 and 24 on the zipped RDD, after the ingestion *)
(* statements: kind is "train" or "inference".                             *)
Feed(c, kind, imgs, lbls) ==
  IF args = <<>> THEN
    /\ trace' = Append(trace, Step(c, "ingest"))
    /\ pc' = "failed"
    /\ UNCHANGED <<waiting, fs, handles, queue, feedLog>>
  ELSE IF ZipCall(imgs, lbls) # "ok" THEN
    /\ trace' = Append(trace, Step(c, "ingest"))
    /\ pc' = "failed"
    /\ UNCHANGED <<waiting, fs, handles, queue, feedLog>>
  ELSE
    /\ trace' = trace \o <<Step(c, "ingest"), Step(c, "feed")>>
    /\ feedLog' = feedLog \cup {[cell |-> c, handle |-> cluster,
                                  live |-> cluster \in live]}
    /\ IF cluster \notin live THEN
         pc' = "failed" /\ UNCHANGED <<waiting, fs, handles, queue>>
       ELSE IF kind = "inference" /\ PathOf[args[1].output.s] \in fs THEN
         pc' = "failed" /\ UNCHANGED <<waiting, fs, handles, queue>>
       ELSE IF Evaluate(imgs, lbls).status = "ok" THEN
         LET epochs == IF kind = "train" THEN args[1].epochs.n ELSE 1
             items == ItemsOf(cluster, kind,
                              Flatten(Evaluate(imgs, lbls).parts), epochs)
         IN /\ queue' = queue \cup items
            /\ handles' = [handles EXCEPT ![cluster].fed = TRUE,
                                          ![cluster].submitted = Cardinality(items)]
            /\ IF kind = "train"
                 THEN pc' = NextCell(c) /\ waiting' = FALSE
                 ELSE pc' = c /\ waiting' = TRUE
            /\ fs' = fs
       ELSE
         \E ran \in SUBSET GoodPartitions(imgs, lbls) :
           LET items == ItemsOf(cluster, kind, GoodParts(imgs, lbls, ran), 1)
           IN /\ queue' = queue \cup items
              /\ handles' = [handles EXCEPT ![cluster].fed = TRUE,
                                            ![cluster].submitted = Cardinality(items)]
              /\ pc' = "failed"
              /\ UNCHANGED <<waiting, fs>>

(* images = ...; labels = ...; dataRDD = images.zip(labels);               *)
(* cluster.train(dataRDD, args.epochs)                                     *)
FeedTrain(c) ==
  /\ pc = c /\ ~waiting
  /\ \E imgs \in RunImageSources, lbls \in RunLabelSources :
       Feed(c, "train", imgs, lbls)
  /\ UNCHANGED <<args, num_executors, cluster, live, predictions, saved, cleared,
                 pvars, ivars>>

(* images = ...; labels = ...; dataRDD = images.zip(labels);               *)
(* predictions = cluster.inference(dataRDD);                               *)
(* predictions.saveAsTextFile(args.output): the job starts                 *)
FeedInference(c) ==
  /\ pc = c /\ ~waiting
  /\ \E imgs \in RunImageSources, lbls \in RunLabelSources :
       Feed(c, "inference", imgs, lbls)
  /\ UNCHANGED <<args, num_executors, cluster, live, predictions, saved, cleared,
                 pvars, ivars>>

(* predictions.saveAsTextFile(args.output) returns: every record of the    *)
(* job has its prediction, the part file is written.                       *)
SaveReturn(c) ==
  /\ pc = c /\ waiting
  /\ Pending(cluster, queue) = {}
  /\ saved' = predictions
  /\ fs' = fs \cup { PathOf[args[1].output.s],
                     Append(PathOf[args[1].output.s], "part-00000") }
  /\ waiting' = FALSE
  /\ pc' = NextCell(c)
  /\ UNCHANGED <<args, num_executors, cluster, handles, live, queue, predictions,
                 trace, feedLog, cleared, pvars, ivars>>

(* A worker of a live cluster takes one record off the queue.              *)
Consume ==
  /\ \E item \in queue :
       /\ item.h \in live
       /\ handles[item.h].workers > 0
       /\ queue' = queue \ {item}
       /\ handles' = [handles EXCEPT ![item.h].consumed = @ + 1]
       /\ predictions' = IF item.kind = "inference" THEN Collect(predictions, item)
                     ELSE predictions
  /\ UNCHANGED <<pc, waiting, args, fs, num_executors, cluster, live, saved,
                 trace, feedLog, cleared, pvars, ivars>>

(* cluster.shutdown() is called                                            *)
Shutdown(c) ==
  /\ pc = c /\ ~waiting
  /\ trace' = Append(trace, Step(c, "shutdown"))
  /\ IF cluster \in live
       THEN waiting' = TRUE /\ pc' = pc
       ELSE waiting' = FALSE /\ pc' = "failed"
  /\ UNCHANGED <<args, fs, num_executors, cluster, handles, live, queue,
                 predictions, saved, feedLog, cleared, pvars, ivars>>

(* cluster.shutdown() returns: the workers are released                    *)
ShutdownReturn(c) ==
  /\ pc = c /\ waiting
  /\ ShutdownMayReturn(cluster, queue)
  /\ live' = live \ {cluster}
  /\ handles' = [handles EXCEPT ![cluster].workers = 0]
  /\ queue' = queue \ Pending(cluster, queue)   \* the queues go with the workers
  /\ fs' = fs \cup Artifacts(handles[cluster])
  /\ waiting' = FALSE
  /\ pc' = NextCell(c)
  /\ UNCHANGED <<args, num_executors, cluster, predictions, saved, trace, feedLog,
                 cleared, pvars, ivars>>

Next ==
  \/ Ls("c10", "csv/train/images")
  \/ Ls("c11", "csv/train/labels")
  \/ Parse("c12", TrainTokens)
  \/ Rm("c13", "model")
  \/ Run("c14")
  \/ FeedTrain("c15")
  \/ Shutdown("c16")
  \/ ShutdownReturn("c16")
  \/ LsArg("c17", "model")
  \/ Ls("c19", "csv/test/images")
  \/ Ls("c20", "csv/test/labels")
  \/ Parse("c21", InferenceTokens)
  \/ Rm("c22", "output")
  \/ Run("c23")
  \/ FeedInference("c24")
  \/ SaveReturn("c24")
  \/ Shutdown("c25")
  \/ ShutdownReturn("c25")
  \/ LsArg("c26", "output")
  \/ Consume

Spec == Init /\ [][Next]_vars

-----------------------------------------------------------------------------
(* Properties of the notebook's two runs, checked under Spec.              *)

RunNames == {"train", "inference"}

(* C1: cluster.shutdown() does not return while a record submitted by the  *)
(* preceding train or inference call is unconsumed: once a cluster's       *)
(* shutdown has returned and its workers are released, none of its records *)
(* is pending and every record submitted to it was consumed.               *)
C1_ShutdownDrains ==
  \A h \in 1..Len(handles) :
    (h \notin live \/ handles[h].workers = 0) =>
      /\ Pending(h, queue) = {}
      /\ handles[h].consumed = handles[h].submitted
      /\ h \notin live /\ handles[h].workers = 0

C1_Witness ==
  \E h \in 1..Len(handles) :
    /\ h \notin live
    /\ handles[h].workers = 0
    /\ handles[h].submitted >= 2
    /\ handles[h].consumed = handles[h].submitted

StepsOf(r) ==
  LET OfRun(e) == e.run = r
      steps == SelectSeq(trace, OfRun)
  IN [k \in 1..Len(steps) |-> steps[k].step]

(* The state of a run: created until TFCluster.run has returned its        *)
(* cluster, running until a feed call is issued on it, draining until its  *)
(* shutdown has returned.                                                  *)
RunState(r) ==
  LET hs == { h \in 1..Len(handles) : RunOf(handles[h].cell) = r }
  IN IF hs = {} THEN "created"
     ELSE LET h == CHOOSE x \in hs : TRUE
          IN IF h \notin live THEN "shutdown"
             ELSE IF handles[h].fed THEN "draining"
             ELSE "running"

RunStateMoves ==
  { <<"created", "running">>, <<"running", "draining">>,
    <<"draining", "shutdown">> }

OrderInCode ==
  <<"ls", "ls", "parse_args", "rm", "run", "ingest", "feed", "shutdown", "ls">>

OrderClaimed ==
  <<"parse_args", "ls", "ls", "rm", "run", "ingest", "feed", "shutdown", "ls">>

Position(steps, kind) ==
  IF \E k \in 1..Len(steps) : steps[k] = kind
    THEN CHOOSE k \in 1..Len(steps) :
           steps[k] = kind /\ \A j \in 1..(k - 1) : steps[j] # kind
    ELSE 0

StepsInOrder ==
  /\ \A r \in RunNames : IsPrefix(StepsOf(r), OrderInCode)
  /\ \A j, k \in 1..Len(trace) :
       (trace[j].run = "inference" /\ trace[k].run = "train") => k < j
  /\ \A r \in RunNames :
       RunState(r) # "created" =>
         /\ Position(StepsOf(r), "rm") > 0
         /\ Position(StepsOf(r), "rm") < Position(StepsOf(r), "run")

RunStateStep ==
  \A r \in RunNames :
    \/ RunState(r)' = RunState(r)
    \/ <<RunState(r), RunState(r)'>> \in RunStateMoves

(* C2, as the code has it: each run lists its inputs, then parses its      *)
(* arguments, then deletes the stale artifact directory, then starts the   *)
(* cluster, ingests, feeds, shuts the cluster down and lists the artifact; *)
(* the training run's steps all precede the inference run's; the run state *)
(* only moves created -> running -> draining -> shutdown; the deletion     *)
(* precedes the start of the cluster.                                      *)
C2_StepOrder == [](StepsInOrder) /\ [][RunStateStep]_vars

(* C2, as claimed: in each run the configuration (parse_args) comes first, *)
(* before the listing of the inputs.                                       *)
C2_ConfigurationFirst ==
  \A r \in RunNames : IsPrefix(StepsOf(r), OrderClaimed)

C2_Witness ==
  /\ pc = "done"
  /\ StepsOf("train") = OrderInCode
  /\ StepsOf("inference") = OrderInCode
  /\ \A r \in RunNames : RunState(r) = "shutdown"

(* C8: when the inference cell has completed (saveAsTextFile returned),    *)
(* the output holds exactly one prediction line per submitted record: N    *)
(* lines for N records, the line of each record exactly once.              *)
InferenceSaved == pc \in {"c25", "c26", "done"}

C8_OnePredictionPerRecord ==
  InferenceSaved =>
    LET n == handles[cluster].submitted
    IN /\ BagCardinality(saved) = n
       /\ \A k \in 1..n :
            BagCardinality([e \in { x \in BagToSet(saved) : x.pos = k } |->
                              saved[e]]) = 1

C8_Witness ==
  /\ pc = "done"
  /\ handles[cluster].submitted >= 2
  /\ BagCardinality(saved) = handles[cluster].submitted
  /\ <<"predictions", "part-00000">> \in fs

ClearingCells == { <<"c13", "model">>, <<"c22", "output">> }

(* C9: the clearing step raises nothing; after it no path at or below its  *)
(* target exists and every other path is as before; on a missing target    *)
(* the filesystem is unchanged; clearing again changes nothing; the        *)
(* inference run's clearing step leaves the trained model in place.        *)
C9_ClearingStep ==
  [][\A cd \in ClearingCells :
       (pc = cd[1] /\ pc' # pc) =>
         LET target == PathOf[args[1][cd[2]].s]
         IN /\ pc' # "failed"
            /\ \A q \in fs' : ~IsPrefix(target, q)
            /\ \A q \in fs \cup fs' :
                 ~IsPrefix(target, q) => (q \in fs <=> q \in fs')
            /\ target \notin fs => fs' = fs
            /\ RmRf(fs', target) = fs'
            /\ cd[1] = "c22" =>
                 { <<"mnist_model">>, <<"mnist_model", "checkpoint">> } \subseteq fs'
    ]_vars

C9_Witness ==
  /\ pc = "c23"
  /\ <<"predictions", "part-00000">> \in cleared
  /\ <<"mnist_model", "checkpoint">> \in cleared
  /\ <<"predictions">> \notin fs
  /\ { <<"mnist_model", "checkpoint">>, <<"mnist_model.bak">> } \subseteq fs

(* C10: every feed call is issued on a live handle, at most one cluster is *)
(* live at any time, and a cluster that has been fed and shut down is      *)
(* never fed again.                                                        *)
C10_FeedOnLiveHandle ==
  /\ Cardinality(live) <= 1
  /\ \A e \in feedLog : e.live /\ e.handle \in 1..Len(handles)
  /\ \A e \in feedLog : RunOf(e.cell) = RunOf(handles[e.handle].cell)
  /\ \A h \in live : h = cluster

C10_Witness ==
  /\ pc = "done"
  /\ live = {}
  /\ { e.cell : e \in feedLog } = {"c15", "c24"}
  /\ Cardinality({ e.handle : e \in feedLog }) = 2

-----------------------------------------------------------------------------
(* Properties of the ingestion, checked under IngestSpec.                  *)

Total(src) == Len(Flatten(src))

WellFormed ==
  /\ \A k \in 1..Total(imagesSrc) : ParseImageLine(Flatten(imagesSrc)[k]) # <<>>
  /\ \A k \in 1..Total(labelsSrc) : ParseLabelLine(Flatten(labelsSrc)[k]) # <<>>

SameLayout ==
  /\ Len(imagesSrc) = Len(labelsSrc)
  /\ \A p \in 1..Len(imagesSrc) : Len(imagesSrc[p]) = Len(labelsSrc[p])

Evaluated == ipc \in {"fed", "raised"}

PairedByPosition ==
  /\ ipc = "fed"
  /\ dataRDD[1].status = "ok"
  /\ LET recs == Flatten(dataRDD[1].parts)
     IN /\ Len(recs) = Total(imagesSrc)
        /\ \A k \in 1..Len(recs) :
             /\ <<recs[k].image>> = ParseImageLine(Flatten(imagesSrc)[k])
             /\ <<recs[k].label>> = ParseLabelLine(Flatten(labelsSrc)[k])

(* C6, as the code has it: for image and label sources whose lines parse,  *)
(* with the same number of partitions and the same number of lines in each *)
(* partition (N lines in all), ingestion produces exactly N pairs, the     *)
(* i-th made of the parsed i-th image line and the parsed i-th label line. *)
C6_PairsWhenSameLayout ==
  (Evaluated /\ WellFormed /\ SameLayout) => PairedByPosition

NonEmptyFiles(src) == Len(src) >= 1 /\ \A p \in 1..Len(src) : Len(src[p]) >= 1

(* C6, as claimed: the same holds whenever the two sources have the same   *)
(* line count N (stated here for part files that each hold a line).        *)
C6_PairsWhenSameCount ==
  (/\ Evaluated /\ WellFormed
   /\ NonEmptyFiles(imagesSrc) /\ NonEmptyFiles(labelsSrc)
   /\ Total(imagesSrc) = Total(labelsSrc))
  => PairedByPosition

C6_Witness ==
  /\ ipc = "fed"
  /\ Len(imagesSrc) = 2
  /\ Total(imagesSrc) >= 3
  /\ Len(Flatten(dataRDD[1].parts)) = Total(labelsSrc)

(* C7, as the code has it: when the two sources differ in their line       *)
(* count, ingestion raises (at images.zip(labels) when the numbers of      *)
(* partitions differ, else in the job that evaluates the zipped RDD) and   *)
(* produces no paired records.                                             *)
C7_MismatchRaises ==
  (Evaluated /\ Total(imagesSrc) # Total(labelsSrc)) =>
    /\ ipc = "raised"
    /\ dataRDD[1].status = "error"
    /\ dataRDD[1].parts = <<>>

(* C7, as claimed: a mismatch of the line counts is silently tolerated,    *)
(* and the pairing yields pairs bounded by the shorter source (stated here *)
(* for part files that each hold a line).                                  *)
C7_MismatchTolerated ==
  (/\ Evaluated /\ WellFormed
   /\ NonEmptyFiles(imagesSrc) /\ NonEmptyFiles(labelsSrc)
   /\ Total(imagesSrc) # Total(labelsSrc))
  =>
    /\ ipc = "fed"
    /\ dataRDD[1].status = "ok"
    /\ Total(dataRDD[1].parts) <= Total(imagesSrc)
    /\ Total(dataRDD[1].parts) <= Total(labelsSrc)

C7_Witness ==
  /\ ipc = "raised"
  /\ WellFormed
  /\ Len(imagesSrc) = Len(labelsSrc)
  /\ Total(imagesSrc) = 2
  /\ Total(labelsSrc) = 1
  /\ dataRDD = <<[status |-> "error", parts |-> <<>>]>>

-----------------------------------------------------------------------------
(* Properties of parse_args, checked under ParseSpec.                      *)

Parsed == presult # <<>> /\ presult[1].status = "ok"

IntFlags == {"--batch_size", "--epochs", "--readers", "--steps"}
FormatChoices == {"csv", "pickle", "tfr"}
ModeChoices == {"train", "inference"}
BoolLiterals == {"True", "False"}

(* C3: a run is in exactly one of the modes train and inference, for every *)
(* record parse_args can produce for --mode.                               *)
C3_ExactlyOneMode ==
  Parsed =>
    LET mode == presult[1].ns[1].mode
    IN (mode = PyStr("train")) # (mode = PyStr("inference"))

InvalidValue(flag, value) ==
  \/ flag \in IntFlags /\ value \notin DOMAIN IntLiterals
  \/ flag = "--rdma" /\ value \notin BoolLiterals
  \/ flag = "--format" /\ value \notin FormatChoices
  \/ flag = "--mode" /\ value \notin ModeChoices

(* C4: parse_args fails, and produces no record, whenever a supplied value *)
(* violates its flag's declared type or lies outside its flag's choices.   *)
C4_InvalidValueRejected ==
  (/\ presult # <<>>
   /\ \E i \in 1..(Len(ptokens) - 1) : InvalidValue(ptokens[i], ptokens[i + 1]))
  => /\ presult[1].status = "error"
     /\ presult[1].ns = <<>>

(* The value the claim expects for a flag supplied with a string.          *)
Coerced(a, str) ==
  IF a.dest \in {"batch_size", "epochs", "readers", "steps"}
    THEN PyInt(IntLiterals[str])
  ELSE IF a.dest = "rdma" THEN PyBool(str = "True")
  ELSE PyStr(str)

Occurrences(a) ==
  { i \in 1..Len(ptokens) : IsOptionString(ptokens[i]) /\ Matches(ptokens[i]) = {a} }

Last(S) == CHOOSE i \in S : \A j \in S : j <= i

(* C5: in every record parse_args produces from a valid token list, each   *)
(* field is the supplied value coerced to the declared type of its flag    *)
(* (an integer for the int flags, a boolean for --rdma and --tensorboard), *)
(* or the declared default when the flag is absent.                        *)
C5_RecordMatchesTokens ==
  (/\ Parsed
   /\ \A i \in 1..(Len(ptokens) - 1) : ~InvalidValue(ptokens[i], ptokens[i + 1]))
  =>
    \A a \in parser :
      LET got == presult[1].ns[1][a.dest]
      IN IF Occurrences(a) = {} THEN got = a.default
         ELSE IF a.dest = "tensorboard" THEN got = PyBool(TRUE)
         ELSE got = Coerced(a, ptokens[Last(Occurrences(a)) + 1])

====
